---- MODULE Spec2Model ----
(***************************************************************************)
(* Model of notion_vocabulary.repository.VocabularyRepository: the upsert  *)
(* protocol (_upsert_word_with_context and its helpers), the status        *)
(* update, and the unit of work opened by _cursor, run by concurrent       *)
(* callers against one transactional store (words and contexts tables).    *)
(*                                                                         *)
(* Every caller executes its call one store statement at a time; the       *)
(* statements of different callers interleave (statements that touch only  *)
(* rows the transaction has already locked are taken together with the     *)
(* statement before them).  The store is InnoDB-like:                      *)
(* plain SELECTs are consistent reads of the transaction's snapshot plus   *)
(* its own writes, INSERT/UPDATE read the latest committed rows, lock the  *)
(* rows they write until the transaction ends, and other writers of a      *)
(* locked row wait.                                                        *)
(***************************************************************************)
EXTENDS Integers, Sequences, FiniteSets, TLC

VARIABLES
    words,          \* committed rows of table words
    contexts,       \* committed rows of table contexts
    nextWordId,     \* AUTO_INCREMENT counter of words
    nextCtxId,      \* AUTO_INCREMENT counter of contexts
    clock,          \* wall-clock time (UTC) of the application
    dbOffset,       \* what the store's CURRENT_TIMESTAMP reads, minus clock
    pc,             \* pc[p]: the statement caller p executes next
    frame,          \* frame[p]: the running call of p and its local variables
    snap,           \* snap[p]: the read view of p's transaction
    pendWords,      \* pendWords[p]: word rows written (and locked) by p's transaction
    pendCtx,        \* pendCtx[p]: context rows inserted by p's transaction
    calls,          \* calls begun so far
    observed,       \* observed[l]: observations of lemma l committed so far
    reported        \* reported[l][s]: committed outcomes with context_inserted for (l, s)

vars == <<words, contexts, nextWordId, nextCtxId, clock, dbOffset, pc, frame, snap,
          pendWords, pendCtx, calls, observed, reported>>

storeVars == <<words, contexts>>
idVars    == <<nextWordId, nextCtxId>>
txnVars   == <<snap, pendWords, pendCtx>>
histVars  == <<observed, reported>>

----------------------------------------------------------------------------
(* Bounds of the model *)

MaxCalls  == 2      \* calls begun in one behaviour
MaxBatch  == 2      \* longest batch given to upsert_many_words_with_context
MaxFaults == 1      \* store failures injected in one call
MaxClock  == 1      \* last clock value
MaxSkew   == 1      \* largest distance between the store's clock and the application's
MaxRows   == 3      \* most Words in a store that list_words reads
MaxLimit  == 2      \* largest limit given to list_words
MaxOffset == 3      \* largest offset given to list_words
MaxTexts  == 2      \* most texts in one batch request
MaxTokens == 2      \* most tokens the token source yields for one text
MaxRequests == 1    \* requests sent to the facade in one behaviour

Callers   == {"c1", "c2"}
Lemmas    == {"cat", "dog"}
Sentences == {"A cat sat.", "A dog ran."}

----------------------------------------------------------------------------
(* models.py *)

UNMASTERED == "unmastered"
LEARNING   == "learning"
MASTERED   == "mastered"
WordStatus == {UNMASTERED, LEARNING, MASTERED}

Word(id, word, frequency, status, first_seen, last_seen) ==
    [id |-> id, word |-> word, frequency |-> frequency, status |-> status,
     first_seen |-> first_seen, last_seen |-> last_seen]

Context(id, word_id, sentence) ==
    [id |-> id, word_id |-> word_id, sentence |-> sentence]

WordUpsertResult(word, created, context_inserted, frequency_updated) ==
    [word |-> word, created |-> created, context_inserted |-> context_inserted,
     frequency_updated |-> frequency_updated]

----------------------------------------------------------------------------
(* Exceptions a call can raise *)

NoExc            == "none"
OperationalError == "OperationalError"     \* the store failed (StoreUnavailable)
IntegrityError   == "IntegrityError"       \* duplicate key on INSERT
DeadlockError    == "DeadlockError"        \* chosen as the victim of a lock cycle
RuntimeError     == "RuntimeError"         \* repository.py line 162
AttributeError   == "AttributeError"       \* an object has no such attribute

----------------------------------------------------------------------------
(* The calls a caller can issue *)

Observation(word, sentence) == [word |-> word, sentence |-> sentence]
Observations == {Observation(l, s) : l \in Lemmas, s \in Sentences}

UpsertOne  == "upsert_word_with_context"
UpsertMany == "upsert_many_words_with_context"
SetStatus  == "update_word_status"

Call(kind, items, word, status) ==
    [kind |-> kind, items |-> items, word |-> word, status |-> status]

\* items of an upsert_many call is an Iterable: the model draws its items one
\* by one, as the for loop of the call reaches them.
UpsertOneCalls  == {Call(UpsertOne, <<o>>, o.word, UNMASTERED) : o \in Observations}
UpsertManyCalls == {Call(UpsertMany, <<>>, "cat", UNMASTERED)}
SetStatusCalls  == {Call(SetStatus, <<>>, l, st) : l \in Lemmas, st \in WordStatus}
Calls == UpsertOneCalls \cup UpsertManyCalls \cup SetStatusCalls

\* list_words(status, min_frequency, limit, offset) (76-83).  An Optional
\* argument is None or holds a value.
None == <<>>
Some(x) == <<x>>
ListWords == "list_words"
ListCall(status, min_frequency, limit, offset) ==
    [kind |-> ListWords, items |-> <<>>, word |-> "cat", status |-> status,
     min_frequency |-> min_frequency, limit |-> limit, offset |-> offset]
ListCalls ==
    {ListCall(st, mf, l, o) : st \in {None} \cup {Some(s) : s \in WordStatus},
                              mf \in {None, Some(1), Some(2)},
                              l \in 0..MaxLimit, o \in 0..MaxOffset}

\* fetch_word_with_contexts(word) (213)
FetchWord == "fetch_word_with_contexts"
FetchCalls == {Call(FetchWord, <<>>, l, UNMASTERED) : l \in Lemmas}

\* ping() (129)
Ping == "ping"
PingCalls == {Call(Ping, <<>>, "cat", UNMASTERED)}

NoCall == Call("none", <<>>, "cat", UNMASTERED)

\* The local variables of a call and the state of its connection.  The rest
\* is history: committed, whether the call's transaction was committed; began,
\* the lemmas stored when the call began; faults, the store failures injected
\* into the call; existed[i], whether the lemma of the i-th lookup was stored
\* (committed, or written by this transaction) when it was looked up; raced,
\* whether an UPDATE of the call found a row newer than the one its SELECT read.
NewFrame(c) ==
    [call |-> c, idx |-> 0, word_id |-> 0, created |-> FALSE,
     frequency_updated |-> FALSE,
     results |-> <<>>, retval |-> <<>>, exc |-> NoExc, at |-> "none",
     connection |-> "open",
     committed |-> FALSE, began |-> {r.word : r \in words}, faults |-> 0,
     existed |-> <<>>, raced |-> FALSE]

IdleFrame == [NewFrame(NoCall) EXCEPT !.began = {}, !.connection = "none"]

\* Frame f with exception e raised at place at: the locals of the body are gone.
Raise(f, e, at) ==
    [f EXCEPT !.exc = e, !.at = at, !.idx = 0, !.word_id = 0, !.created = FALSE,
              !.frequency_updated = FALSE, !.results = <<>>, !.retval = <<>>,
              !.existed = <<>>, !.raced = FALSE]

\* The store fails under frame f: at raises OperationalError.
Fail(f, at) == [Raise(f, OperationalError, at) EXCEPT !.faults = @ + 1]

Goto(p, label) == pc' = [pc EXCEPT ![p] = label]

----------------------------------------------------------------------------
(* The store *)

NoSnapshot == [taken |-> FALSE, rows |-> {}]

\* A write that replaces the table by the rows written.
Replaced(base, pend) == pend

\* The rows of base with the versions of pend in place of theirs.
Overlay(base, pend) ==
    {r \in base : \A w \in pend : w.id # r.id} \cup pend

\* What an INSERT or UPDATE of p reads: the latest committed rows and p's own.
Current(p) == Overlay(words, pendWords[p])
CurrentCtx(p) == contexts \cup pendCtx[p]

\* The read view of p: established by the transaction's first consistent read.
ReadView(p) == IF snap[p].taken THEN snap[p] ELSE [taken |-> TRUE, rows |-> words]

\* A SELECT that misses the rows its own transaction has written.
SnapshotOnly(p) == ReadView(p).rows

\* What a plain SELECT of p reads.
View(p) == Overlay(ReadView(p).rows, pendWords[p])

\* cursor.fetchone(): the first row of the result set, or none.
FetchOne(rows) ==
    IF rows = {} THEN {}
    ELSE {CHOOSE r \in rows : \A o \in rows : r.id <= o.id}

\* A words table without a key on word: nothing is a duplicate.
NoWordKey(rows, word) == FALSE

\* UNIQUE KEY words(word)
DuplicateWord(rows, word) == \E r \in rows : r.word = word

\* UNIQUE KEY contexts(word_id, sentence)
DuplicateContext(rows, word_id, sentence) ==
    \E c \in rows : c.word_id = word_id /\ c.sentence = sentence

\* parse_status (models.py 79-87): NULL reads as unmastered, a value that is
\* no status raises.
NULL == "NULL"
ParseStatus(value) ==
    IF value = NULL THEN UNMASTERED
    ELSE IF value \in WordStatus THEN value
    ELSE "ValueError"

\* _row_to_word (203-211)
RowToWord(row) ==
    Word(row.id, row.word, row.frequency, ParseStatus(row.status),
         row.first_seen, row.last_seen)

\* Time passes before a statement that reads the clock.
Elapse == (\E now \in clock..MaxClock : clock' = now) /\ UNCHANGED dbOffset

\* now = datetime.utcnow() (175): the application's clock
UtcNow == clock'

\* CURRENT_TIMESTAMP (191): the store's clock, in its session time zone
CurrentTimestamp == clock' + dbOffset

Item(p) == frame[p].call.items[frame[p].idx]

\* The callers whose uncommitted writes p's next statement has to wait for.
WaitsFor(p) ==
    LET others == Callers \ {p} IN
    CASE pc[p] = "insert_word" ->
            {q \in others : \E r \in pendWords[q] : r.word = Item(p).word}
      [] pc[p] = "increment" ->
            {q \in others : \E r \in pendWords[q] : r.id = frame[p].word_id}
      [] pc[p] = "set_status" ->
            {q \in others : \E r \in pendWords[q] : r.word = frame[p].call.word}
      [] pc[p] = "insert_context" ->
            {q \in others : DuplicateContext(pendCtx[q], frame[p].word_id,
                                             Item(p).sentence)}
      [] OTHER -> {}

----------------------------------------------------------------------------
(* Initial states *)

\* The store after upsert_word_with_context("cat", "A cat sat.") on an empty store
\* at time 0 and update_word_status("cat", "learning").
InitSeeded ==
    /\ words = {Word(1, "cat", 1, LEARNING, 0, 0)}
    /\ contexts = {Context(1, 1, "A cat sat.")}
    /\ nextWordId = 2
    /\ nextCtxId = 2
    /\ observed = [l \in Lemmas |-> IF l = "cat" THEN 1 ELSE 0]
    /\ reported = [l \in Lemmas |-> [s \in Sentences |->
                      IF l = "cat" /\ s = "A cat sat." THEN 1 ELSE 0]]

InitEmpty ==
    /\ words = {}
    /\ contexts = {}
    /\ nextWordId = 1
    /\ nextCtxId = 1
    /\ observed = [l \in Lemmas |-> 0]
    /\ reported = [l \in Lemmas |-> [s \in Sentences |-> 0]]

\* No call has begun.
InitCallers ==
    /\ clock = 0
    /\ pc = [p \in Callers |-> "idle"]
    /\ frame = [p \in Callers |-> IdleFrame]
    /\ snap = [p \in Callers |-> NoSnapshot]
    /\ pendWords = [p \in Callers |-> {}]
    /\ pendCtx = [p \in Callers |-> {}]
    /\ calls = 0

\* The store's session time zone is UTC and its clock is the application's.
Init ==
    /\ InitEmpty \/ InitSeeded
    /\ InitCallers
    /\ dbOffset = 0

\* The store's clock is up to MaxSkew away from the application's: another
\* host, or a session time zone that is not UTC.
InitClocks ==
    /\ InitSeeded
    /\ InitCallers
    /\ dbOffset \in -MaxSkew..MaxSkew

----------------------------------------------------------------------------
(* _cursor, exit (repository.py 35-43) *)

\* The end of a transaction on a store that keeps the writes of the
\* statements that ran, whatever the client asks for.
EndAutocommitted(p, persist) ==
    /\ words' = Overlay(words, pendWords[p])
    /\ contexts' = contexts \cup pendCtx[p]
    /\ snap' = [snap EXCEPT ![p] = NoSnapshot]
    /\ pendWords' = [pendWords EXCEPT ![p] = {}]
    /\ pendCtx' = [pendCtx EXCEPT ![p] = {}]

\* The end of a transaction on a store that keeps nothing of it.
EndRolledBack(p, persist) ==
    /\ UNCHANGED storeVars
    /\ snap' = [snap EXCEPT ![p] = NoSnapshot]
    /\ pendWords' = [pendWords EXCEPT ![p] = {}]
    /\ pendCtx' = [pendCtx EXCEPT ![p] = {}]

\* The transaction of p ends: its writes are persisted or dropped, its locks
\* and its read view released.
EndTxn(p, persist) ==
    /\ words' = IF persist THEN Overlay(words, pendWords[p]) ELSE words
    /\ contexts' = IF persist THEN contexts \cup pendCtx[p] ELSE contexts
    /\ snap' = [snap EXCEPT ![p] = NoSnapshot]
    /\ pendWords' = [pendWords EXCEPT ![p] = {}]
    /\ pendCtx' = [pendCtx EXCEPT ![p] = {}]

\* finally: cursor.close(); connection.close() (41-43).  Either may raise;
\* when cursor.close() raises, connection.close() is skipped.
Closings == {"closed", "cursor.close raises", "connection.close raises"}

Close(p, f, how) ==
    /\ how # "closed" => f.faults < MaxFaults
    /\ frame' = [frame EXCEPT ![p] =
                    CASE how = "closed" -> [f EXCEPT !.connection = "closed"]
                      [] how = "cursor.close raises" -> Fail(f, "close")
                      [] OTHER -> [Fail(f, "close") EXCEPT !.connection = "closed"]]
    /\ Goto(p, "done")

\* An except clause that commits what the body had written.
AbortCommitting(p, f) ==
    /\ EndTxn(p, TRUE)
    /\ \E how \in Closings : Close(p, f, how)

\* except Exception: connection.rollback(); raise (38-40), then finally, with
\* the exception of frame f in flight.  When connection.rollback() raises (the
\* connection is gone and the store drops the transaction), its exception
\* replaces the one being handled.
Abort(p, f) ==
    /\ EndTxn(p, FALSE)
    /\ \/ \E how \in Closings : Close(p, f, how)
       \/ /\ f.faults < MaxFaults
          /\ Close(p, Fail(f, "rollback"), "closed")

----------------------------------------------------------------------------
(* The for loop of upsert_many_words_with_context (repository.py 72-73) and  *)
(* the single item of upsert_word_with_context (62-63)                       *)

\* How a call goes on from frame f, at its start and after each item: with the
\* next item the iterable yields, or by leaving the with block.
Continuations(f) ==
    CASE f.call.kind = SetStatus -> {<<f, "set_status">>}
      [] f.call.kind = ListWords -> {<<f, "select_words">>}
      [] f.call.kind = FetchWord -> {<<f, "select_word">>}
      [] f.call.kind = Ping -> {<<f, "select_one">>}
      [] f.call.kind = UpsertOne ->
            IF f.idx = 0 THEN {<<[f EXCEPT !.idx = 1], "lookup">>}
            ELSE {<<f, "commit">>}
      [] OTHER ->
            {<<f, "commit">>} \cup
            (IF Len(f.call.items) < MaxBatch
               THEN {<<[f EXCEPT !.call.items = Append(@, o), !.idx = @ + 1],
                       "lookup">> : o \in Observations}
               ELSE {})

Continue(p, f) ==
    \E k \in Continuations(f) :
       /\ frame' = [frame EXCEPT ![p] = k[1]]
       /\ Goto(p, k[2])

----------------------------------------------------------------------------
(* _cursor, entry: connect, then create the cursor (repository.py 31-34) *)

\* A call of cs starts: the connection and its cursor are open.
BeginWith(p, cs) ==
    /\ pc[p] = "idle"
    /\ calls < MaxCalls
    /\ \E c \in cs : Continue(p, NewFrame(c))
    /\ calls' = calls + 1
    /\ UNCHANGED <<storeVars, idVars, clock, dbOffset, txnVars, histVars>>

Begin(p) == BeginWith(p, Calls)

\* mysql.connector.connect raises: nothing was opened.
ConnectFailsWith(p, cs) ==
    /\ pc[p] = "idle"
    /\ calls < MaxCalls
    /\ 0 < MaxFaults
    /\ \E c \in cs :
         frame' = [frame EXCEPT ![p] =
                      [Fail(NewFrame(c), "connect") EXCEPT !.connection = "none"]]
    /\ Goto(p, "done")
    /\ calls' = calls + 1
    /\ UNCHANGED <<storeVars, idVars, clock, dbOffset, txnVars, histVars>>

ConnectFails(p) == ConnectFailsWith(p, Calls)

\* connection.cursor raises outside the try block: the connection stays open.
CursorFailsWith(p, cs) ==
    /\ pc[p] = "idle"
    /\ calls < MaxCalls
    /\ 0 < MaxFaults
    /\ \E c \in cs :
         frame' = [frame EXCEPT ![p] = Fail(NewFrame(c), "cursor")]
    /\ Goto(p, "done")
    /\ calls' = calls + 1
    /\ UNCHANGED <<storeVars, idVars, clock, dbOffset, txnVars, histVars>>

CursorFails(p) == CursorFailsWith(p, Calls)

----------------------------------------------------------------------------
(* _upsert_word_with_context (repository.py 140-168) *)

\* SELECT id, frequency FROM words WHERE word = %s; fetchone (143-152)
Lookup(p) ==
    /\ pc[p] = "lookup"
    /\ LET row == FetchOne({r \in View(p) : r.word = Item(p).word})
           seen == Append(frame[p].existed,
                          \E r \in Current(p) : r.word = Item(p).word)
       IN IF row = {}
            THEN /\ Goto(p, "insert_word")
                 /\ frame' = [frame EXCEPT ![p].existed = seen]
            ELSE /\ Goto(p, "increment")
                 /\ frame' = [frame EXCEPT ![p].existed = seen,
                                           ![p].word_id = (CHOOSE r \in row : TRUE).id]
    /\ snap' = [snap EXCEPT ![p] = ReadView(p)]
    /\ UNCHANGED <<storeVars, idVars, clock, dbOffset, pendWords, pendCtx, calls, histVars>>

\* An INSERT that stores new Words as learning.
NewLearningWord(id, word) == Word(id, word, 1, LEARNING, UtcNow, UtcNow)

\* An INSERT that leaves the first observation uncounted.
NewWordUncounted(id, word) == Word(id, word, 0, UNMASTERED, UtcNow, UtcNow)

\* The row _insert_word writes (171-185).
NewWord(id, word) == Word(id, word, 1, UNMASTERED, UtcNow, UtcNow)

\* _insert_word: INSERT INTO words ...; returns cursor.lastrowid (146-148, 170-186)
InsertWord(p) ==
    /\ pc[p] = "insert_word"
    /\ WaitsFor(p) = {}
    /\ IF DuplicateWord(Current(p), Item(p).word)
         THEN /\ Abort(p, Raise(frame[p], IntegrityError, "insert_word"))
              /\ UNCHANGED <<nextWordId, clock, dbOffset>>
         ELSE /\ Elapse
              /\ pendWords' = [pendWords EXCEPT ![p] =
                                  @ \cup {NewWord(nextWordId, Item(p).word)}]
              /\ nextWordId' = nextWordId + 1
              /\ frame' = [frame EXCEPT ![p].word_id = nextWordId,
                                        ![p].created = TRUE,
                                        ![p].frequency_updated = FALSE]
              /\ Goto(p, "insert_context")
              /\ UNCHANGED <<storeVars, snap, pendCtx>>
    /\ UNCHANGED <<nextCtxId, calls, histVars>>

\* An UPDATE that stamps first_seen along with last_seen.
Restamped(r) ==
    [r EXCEPT !.frequency = @ + 1, !.first_seen = CurrentTimestamp,
              !.last_seen = CurrentTimestamp]

\* An UPDATE that sets last_seen and leaves frequency alone.
TouchedOnly(r) == [r EXCEPT !.last_seen = CurrentTimestamp]

\* UPDATE words SET frequency = frequency + 1, last_seen = CURRENT_TIMESTAMP (189-192)
Incremented(r) == [r EXCEPT !.frequency = @ + 1, !.last_seen = CurrentTimestamp]

\* An increment computed from the row the caller read in its SELECT.
RowsReadBefore(p) == {r \in View(p) : r.id = frame[p].word_id}

\* The rows the UPDATE ... WHERE id = %s of p works on: the store evaluates
\* frequency + 1 on the latest version of the row, under the row's lock (193).
RowsToUpdate(p) == {r \in Current(p) : r.id = frame[p].word_id}

\* An _increment_frequency that reports failure whatever the rowcount.
NeverUpdated(rowcount) == FALSE

\* return cursor.rowcount > 0 (194)
FrequencyUpdated(rowcount) == rowcount > 0

\* _increment_frequency (150-152, 188-194)
IncrementFrequency(p) ==
    /\ pc[p] = "increment"
    /\ WaitsFor(p) = {}
    /\ Elapse
    /\ LET hit == RowsToUpdate(p)
       IN /\ pendWords' = [pendWords EXCEPT ![p] =
                              Overlay(@, {Incremented(r) : r \in hit})]
          /\ frame' = [frame EXCEPT
                          ![p].created = FALSE,
                          ![p].frequency_updated = FrequencyUpdated(Cardinality(hit)),
                          ![p].raced = @ \/ \E r \in Current(p) :
                                              r.id = frame[p].word_id /\ r \notin View(p)]
    /\ Goto(p, "insert_context")
    /\ UNCHANGED <<storeVars, idVars, snap, pendCtx, calls, histVars>>

\* A plain INSERT on a table without the unique key: it always adds a row.
InsertAlways(rows, id, word_id, sentence) == {Context(id, word_id, sentence)}

\* INSERT IGNORE INTO contexts (word_id, sentence): the rows it adds to rows (197-200)
InsertIgnore(rows, id, word_id, sentence) ==
    IF DuplicateContext(rows, word_id, sentence) THEN {}
    ELSE {Context(id, word_id, sentence)}

\* An _insert_context that reports an insert whatever the rowcount.
AlwaysInserted(rowcount) == TRUE

\* return cursor.rowcount > 0 (201)
ContextInserted(rowcount) == rowcount > 0

\* _insert_context (154, 196-201); then
\* SELECT ... FROM words WHERE id = %s and the WordUpsertResult (155-168);
\* then the for loop goes on.
InsertContext(p) ==
    /\ pc[p] = "insert_context"
    /\ WaitsFor(p) = {}
    /\ LET f == frame[p]
           added == InsertIgnore(CurrentCtx(p), nextCtxId, f.word_id, Item(p).sentence)
           context_inserted == ContextInserted(Cardinality(added))
           word_row == FetchOne({r \in View(p) : r.id = f.word_id})
       IN /\ nextCtxId' = nextCtxId + Cardinality(added)
          /\ IF word_row = {}
               THEN Abort(p, Raise(f, RuntimeError, "insert_context"))
               ELSE /\ pendCtx' = [pendCtx EXCEPT ![p] = @ \cup added]
                    /\ snap' = [snap EXCEPT ![p] = ReadView(p)]
                    /\ UNCHANGED <<storeVars, pendWords>>
                    /\ Continue(p, [f EXCEPT
                       !.results = Append(@, WordUpsertResult(
                                       RowToWord(CHOOSE r \in word_row : TRUE), f.created,
                                       context_inserted, f.frequency_updated)),
                       !.word_id = 0, !.created = FALSE, !.frequency_updated = FALSE])
    /\ UNCHANGED <<nextWordId, clock, dbOffset, calls, histVars>>

----------------------------------------------------------------------------
(* update_word_status (repository.py 109-127) *)

\* cursor.rowcount after an UPDATE: the connection is opened without the
\* FOUND_ROWS client flag (config.py 45-54), so it counts the rows the
\* statement changed, not the rows its WHERE clause matched.
RowCount(matched, changed) == Cardinality(changed)

\* An UPDATE that sets the status and counts an observation as well.
CountedWithStatus(r, status) == [r EXCEPT !.status = status, !.frequency = @ + 1]

\* UPDATE words SET status = %s: the new version of row r (114)
WithStatus(r, status) == [r EXCEPT !.status = status]

\* UPDATE words SET status = %s WHERE word = %s; None when rowcount == 0 (113-118);
\* else SELECT ... FROM words WHERE word = %s and fetchone (119-127)
UpdateStatus(p) ==
    /\ pc[p] = "set_status"
    /\ WaitsFor(p) = {}
    /\ LET f == frame[p]
           matched == {r \in Current(p) : r.word = f.call.word}
           changed == {r \in matched : r.status # f.call.status}
           updated == {WithStatus(r, f.call.status) : r \in matched}
           row == FetchOne({r \in Overlay(ReadView(p).rows,
                                          Overlay(pendWords[p], updated)) :
                               r.word = f.call.word})
       IN /\ pendWords' = [pendWords EXCEPT ![p] = Overlay(@, updated)]
          /\ IF RowCount(matched, changed) = 0
               THEN /\ frame' = [frame EXCEPT ![p].existed = <<matched # {}>>]
                    /\ UNCHANGED snap
               ELSE /\ frame' = [frame EXCEPT
                                    ![p].existed = <<matched # {}>>,
                                    ![p].retval = IF row = {} THEN <<>>
                                                  ELSE <<RowToWord(CHOOSE r \in row : TRUE)>>]
                    /\ snap' = [snap EXCEPT ![p] = ReadView(p)]
    /\ Goto(p, "commit")
    /\ UNCHANGED <<storeVars, idVars, clock, dbOffset, pendCtx, calls, histVars>>

----------------------------------------------------------------------------
(* Failures inside the with block *)

Statements == {"lookup", "insert_word", "increment", "insert_context", "set_status",
               "select_one"}

\* cursor.execute raises: the store failed on this statement; the except
\* clause and finally follow.
StatementFails(p) ==
    /\ pc[p] \in Statements
    /\ frame[p].faults < MaxFaults
    /\ Abort(p, Fail(frame[p], "statement"))
    /\ UNCHANGED <<idVars, clock, dbOffset, calls, histVars>>

\* Two transactions wait for each other's locks: the store aborts the
\* statement of one of them, which raises.
Deadlock(p) ==
    /\ \E q \in WaitsFor(p) : p \in WaitsFor(q)
    /\ Abort(p, Raise(frame[p], DeadlockError, pc[p]))
    /\ UNCHANGED <<idVars, clock, dbOffset, calls, histVars>>

----------------------------------------------------------------------------
(* The end of the with block *)

\* The observations of lemma l among the outcomes of frame f.
ObservationsOf(f, l) ==
    Cardinality({i \in DOMAIN f.results : f.call.items[i].word = l})

\* The outcomes of frame f for (l, s) that say context_inserted.
ReportsOf(f, l, s) ==
    Cardinality({i \in DOMAIN f.results :
                    /\ f.call.items[i] = Observation(l, s)
                    /\ f.results[i].context_inserted})

\* connection.commit() after the body ended normally (37), then finally
Commit(p) ==
    /\ pc[p] = "commit"
    /\ EndTxn(p, TRUE)
    /\ observed' = [l \in Lemmas |-> observed[l] + ObservationsOf(frame[p], l)]
    /\ reported' = [l \in Lemmas |-> [s \in Sentences |->
                       reported[l][s] + ReportsOf(frame[p], l, s)]]
    /\ \E how \in Closings : Close(p, [frame[p] EXCEPT !.committed = TRUE], how)
    /\ UNCHANGED <<idVars, clock, dbOffset, calls>>

\* connection.commit() raises: the except clause, then finally (37-43)
CommitFails(p) ==
    /\ pc[p] = "commit"
    /\ frame[p].faults < MaxFaults
    /\ Abort(p, Fail(frame[p], "commit"))
    /\ UNCHANGED <<idVars, clock, dbOffset, calls, histVars>>

\* The call returns its value, or raises frame[p].exc, to its caller.
Return(p) ==
    /\ pc[p] = "done"
    /\ frame' = [frame EXCEPT ![p] = IdleFrame]
    /\ Goto(p, "idle")
    /\ UNCHANGED <<storeVars, idVars, clock, dbOffset, txnVars, calls, histVars>>

----------------------------------------------------------------------------

\* A finished call returns before any other caller takes its next step:
\* returning touches nothing the callers share.
Quiet == \A q \in Callers : pc[q] # "done"

Next ==
    \E p \in Callers :
       \/ Quiet /\ Begin(p)
       \/ Quiet /\ ConnectFails(p)
       \/ Quiet /\ CursorFails(p)
       \/ Quiet /\ Lookup(p)
       \/ Quiet /\ InsertWord(p)
       \/ Quiet /\ IncrementFrequency(p)
       \/ Quiet /\ InsertContext(p)
       \/ Quiet /\ UpdateStatus(p)
       \/ Quiet /\ StatementFails(p)
       \/ Quiet /\ Deadlock(p)
       \/ Quiet /\ Commit(p)
       \/ Quiet /\ CommitFails(p)
       \/ Return(p)

Spec == Init /\ [][Next]_vars

SpecClocks == InitClocks /\ [][Next]_vars

----------------------------------------------------------------------------
(* upsert_word_with_context called with arguments that no Token Source has   *)
(* normalised                                                                *)

RawLemmas == {"Run", "run", "", "42"}
RawSentences == {"I run.", "   "}

\* str.lower(), str.isalpha() and str.strip() on the strings above
\* (text_processing.py 45-46, 55).
Lower(s) == IF s = "Run" THEN "run" ELSE s
IsAlpha(s) == s \in {"Run", "run"}
Strip(s) == IF s = "   " THEN "" ELSE IF s = " world " THEN "world" ELSE s

RawCalls ==
    {Call(UpsertOne, <<Observation(w, s)>>, "cat", UNMASTERED) :
        w \in RawLemmas, s \in RawSentences}

BeginRaw(p) == BeginWith(p, RawCalls)

InitRaw ==
    /\ InitEmpty
    /\ InitCallers
    /\ dbOffset = 0

NextRaw ==
    \E p \in Callers :
       \/ Quiet /\ BeginRaw(p)
       \/ Quiet /\ Lookup(p)
       \/ Quiet /\ InsertWord(p)
       \/ Quiet /\ IncrementFrequency(p)
       \/ Quiet /\ InsertContext(p)
       \/ Quiet /\ Commit(p)
       \/ Return(p)

SpecRaw == InitRaw /\ [][NextRaw]_vars

----------------------------------------------------------------------------
(* list_words (repository.py 76-107) *)

\* WHERE status = %s AND frequency >= %s, each clause only when its
\* argument is not None (86-100)
Where(rows, status, min_frequency) ==
    {r \in rows : /\ status # None => r.status = status[1]
                  /\ min_frequency # None => r.frequency >= min_frequency[1]}

\* An ordering by last_seen DESC, id ASC.
BeforeIdAscending(a, b) ==
    a.last_seen > b.last_seen \/ (a.last_seen = b.last_seen /\ a.id < b.id)

\* ORDER BY last_seen DESC, id DESC (101): row a comes before row b
Before(a, b) ==
    a.last_seen > b.last_seen \/ (a.last_seen = b.last_seen /\ a.id > b.id)

RECURSIVE OrderBy(_)
OrderBy(rows) ==
    IF rows = {} THEN <<>>
    ELSE LET first == CHOOSE r \in rows : \A o \in rows \ {r} : Before(r, o)
         IN <<first>> \o OrderBy(rows \ {first})

\* LIMIT %s OFFSET %s (101-102)
LimitOffset(rows, limit, offset) ==
    [i \in 1..(IF Len(rows) - offset < limit THEN Len(rows) - offset ELSE limit)
        |-> rows[offset + i]]

\* The result set of the query of list_words on rows, converted (105-107).
SelectWords(rows, status, min_frequency, limit, offset) ==
    LET page == LimitOffset(OrderBy(Where(rows, status, min_frequency)), limit, offset)
    IN [i \in DOMAIN page |-> RowToWord(page[i])]

\* cursor.execute(query); rows = cursor.fetchall() (104-106)
ListSelect(p) ==
    /\ pc[p] = "select_words"
    /\ LET c == frame[p].call
       IN frame' = [frame EXCEPT ![p].retval =
                       SelectWords(View(p), c.status, c.min_frequency, c.limit, c.offset)]
    /\ snap' = [snap EXCEPT ![p] = ReadView(p)]
    /\ Goto(p, "commit")
    /\ UNCHANGED <<storeVars, idVars, clock, dbOffset, pendWords, pendCtx, calls, histVars>>

ListBegin(p) == BeginWith(p, ListCalls)

\* The stores list_words reads: up to MaxRows Words, created at time 0 and
\* observed and marked since.
ListLemmas == <<"cat", "dog", "eel", "fox">>
ListLemma(i) == ListLemmas[((i - 1) % Len(ListLemmas)) + 1]
ListRowStates == [frequency : 1..2, status : {UNMASTERED, LEARNING}, last_seen : 0..MaxClock]
ListStores ==
    UNION {{{Word(i, ListLemma(i), at[i].frequency, at[i].status, 0, at[i].last_seen) :
                i \in 1..n} : at \in [1..n -> ListRowStates]} : n \in 0..MaxRows}

InitList ==
    /\ words \in ListStores
    /\ contexts = {}
    /\ nextWordId = Cardinality(words) + 1
    /\ nextCtxId = 1
    /\ observed = [l \in Lemmas |-> 0]
    /\ reported = [l \in Lemmas |-> [s \in Sentences |-> 0]]
    /\ InitCallers
    /\ dbOffset = 0

\* One reader.
NextList ==
    \/ ListBegin("c1")
    \/ ListSelect("c1")
    \/ Commit("c1")
    \/ Return("c1")

SpecList == InitList /\ [][NextList]_vars

----------------------------------------------------------------------------
(* fetch_word_with_contexts (repository.py 213-243) *)

\* The read view of p with the contexts table in it: the first consistent
\* read of a transaction fixes what its later SELECTs see in every table.
ReadViewCtx(p) ==
    IF snap[p].taken THEN snap[p]
    ELSE [taken |-> TRUE, rows |-> words, ctx |-> contexts]

\* A SELECT on contexts without its WHERE clause.
AnyOwner(rows, word_id) == rows

\* WHERE word_id = %s (226)
OwnedBy(rows, word_id) == {c \in rows : c.word_id = word_id}

\* ORDER BY id DESC (227); fetchall
RECURSIVE OrderByIdDesc(_)
OrderByIdDesc(rows) ==
    IF rows = {} THEN <<>>
    ELSE LET first == CHOOSE r \in rows : \A o \in rows : r.id >= o.id
         IN <<first>> \o OrderByIdDesc(rows \ {first})

\* asdict(word_obj) with the status value and the contexts (231-243)
WordWithContexts(word_obj, context_objs) ==
    [id |-> word_obj.id, word |-> word_obj.word, frequency |-> word_obj.frequency,
     status |-> word_obj.status, first_seen |-> word_obj.first_seen,
     last_seen |-> word_obj.last_seen, contexts |-> context_objs]

\* SELECT ... FROM words WHERE word = %s; fetchone; return None when there is
\* no row (217-224)
FetchSelectWord(p) ==
    /\ pc[p] = "select_word"
    /\ LET word_row == FetchOne({r \in View(p) : r.word = frame[p].call.word})
       IN IF word_row = {}
            THEN /\ frame' = [frame EXCEPT ![p].retval = None]
                 /\ Goto(p, "commit")
            ELSE /\ frame' = [frame EXCEPT ![p].word_id = (CHOOSE r \in word_row : TRUE).id]
                 /\ Goto(p, "select_contexts")
    /\ snap' = [snap EXCEPT ![p] = ReadViewCtx(p)]
    /\ UNCHANGED <<storeVars, idVars, clock, dbOffset, pendWords, pendCtx, calls, histVars>>

\* SELECT id, word_id, sentence FROM contexts WHERE word_id = %s ORDER BY id
\* DESC; fetchall; then the dict that is returned (225-243)
FetchSelectContexts(p) ==
    /\ pc[p] = "select_contexts"
    /\ LET word_row == CHOOSE r \in View(p) : r.id = frame[p].word_id
           rows == OrderByIdDesc(OwnedBy(ReadViewCtx(p).ctx \cup pendCtx[p],
                                         frame[p].word_id))
           context_objs == [i \in DOMAIN rows |->
                               Context(rows[i].id, rows[i].word_id, rows[i].sentence)]
       IN frame' = [frame EXCEPT ![p].retval =
                       Some(WordWithContexts(RowToWord(word_row), context_objs))]
    /\ Goto(p, "commit")
    /\ UNCHANGED <<storeVars, idVars, clock, dbOffset, txnVars, calls, histVars>>

FetchBegin(p) == BeginWith(p, FetchCalls)

\* Readers next to callers that upsert, on a store that does not fail.
NextFetch ==
    \E p \in Callers :
       \/ Quiet /\ Begin(p)
       \/ Quiet /\ FetchBegin(p)
       \/ Quiet /\ Lookup(p)
       \/ Quiet /\ InsertWord(p)
       \/ Quiet /\ IncrementFrequency(p)
       \/ Quiet /\ InsertContext(p)
       \/ Quiet /\ UpdateStatus(p)
       \/ Quiet /\ Deadlock(p)
       \/ Quiet /\ FetchSelectWord(p)
       \/ Quiet /\ FetchSelectContexts(p)
       \/ Quiet /\ Commit(p)
       \/ Return(p)

SpecFetch == Init /\ [][NextFetch]_vars

----------------------------------------------------------------------------
(* ping (repository.py 129-138) *)

Pinging(p) == frame[p].call.kind = Ping

PingBegin(p) == BeginWith(p, PingCalls)
PingConnectFails(p) == ConnectFailsWith(p, PingCalls)
PingCursorFails(p) == CursorFailsWith(p, PingCalls)

\* cursor.execute("SELECT 1"); cursor.fetchone() (134-135)
PingSelect(p) ==
    /\ pc[p] = "select_one"
    /\ snap' = [snap EXCEPT ![p] = ReadView(p)]
    /\ Goto(p, "commit")
    /\ UNCHANGED <<storeVars, idVars, clock, dbOffset, frame, pendWords, pendCtx,
                   calls, histVars>>

\* A ping that answers True whatever happened.
AlwaysUp(exc) == TRUE

\* except Exception: return False; else return True (133-138)
PingResult(exc) == exc = NoExc

\* The with statement of ping has ended, normally or with an exception: the
\* except clause catches what was raised and ping returns its answer.
PingExcept(p) ==
    /\ pc[p] = "done"
    /\ Pinging(p)
    /\ frame' = [frame EXCEPT ![p].retval = Some(PingResult(frame[p].exc)),
                              ![p].exc = NoExc]
    /\ Goto(p, "returned")
    /\ UNCHANGED <<storeVars, idVars, clock, dbOffset, txnVars, calls, histVars>>

\* The caller has taken the answer of ping.
PingReturn(p) ==
    /\ pc[p] = "returned"
    /\ frame' = [frame EXCEPT ![p] = IdleFrame]
    /\ Goto(p, "idle")
    /\ UNCHANGED <<storeVars, idVars, clock, dbOffset, txnVars, calls, histVars>>

\* Pings next to callers that upsert, on a store that can fail.
NextPing ==
    \E p \in Callers :
       \/ Quiet /\ Begin(p)
       \/ Quiet /\ PingBegin(p)
       \/ Quiet /\ PingConnectFails(p)
       \/ Quiet /\ PingCursorFails(p)
       \/ Quiet /\ Lookup(p)
       \/ Quiet /\ InsertWord(p)
       \/ Quiet /\ IncrementFrequency(p)
       \/ Quiet /\ InsertContext(p)
       \/ Quiet /\ UpdateStatus(p)
       \/ Quiet /\ PingSelect(p)
       \/ Quiet /\ StatementFails(p)
       \/ Quiet /\ Commit(p)
       \/ Quiet /\ CommitFails(p)
       \/ PingExcept(p)
       \/ PingReturn(p)
       \/ ~Pinging(p) /\ Return(p)

SpecPing == Init /\ [][NextPing]_vars

----------------------------------------------------------------------------
(* The ingestion endpoints (api.py 194-216) over VocabularyPipeline           *)
(* (pipeline.py 36-61) over the repository                                    *)

IngestText  == "POST /api/v1/texts"
IngestBatch == "POST /api/v1/texts/batch"

Texts == {"", "   ", "hello", " world "}

\* PipelineResult (pipeline.py 13-21)
PipelineResult(lemma, sentence, created, frequency_updated, context_inserted) ==
    [lemma |-> lemma, sentence |-> sentence, created |-> created,
     frequency_updated |-> frequency_updated, context_inserted |-> context_inserted]

\* TokenResponse.from_result (api.py 73-81)
TokenResponse(result) ==
    [lemma |-> result.lemma, sentence |-> result.sentence, created |-> result.created,
     frequency_updated |-> result.frequency_updated,
     context_inserted |-> result.context_inserted]

\* A request and the locals of its handler, of process_many and of
\* process_text.  payload is the text of a TokenIngestRequest, as a list of
\* one, or the texts of a BatchIngestRequest.  The rest is history: invoked,
\* whether the pipeline was called; yielded, the tokens of the texts
\* processed; args and upserts, the arguments and the outcomes of the calls of
\* upsert_word_with_context; returned, what the calls of process_text
\* returned; store0, the store when the request came in.
Request(endpoint, payload) ==
    [kind |-> UpsertOne, items |-> <<>>, word |-> "cat", status |-> UNMASTERED,
     endpoint |-> endpoint, payload |-> payload, invoked |-> FALSE,
     texts |-> <<>>, t |-> 0, tokens |-> <<>>, results |-> <<>>, aggregated |-> <<>>,
     yielded |-> <<>>, args |-> <<>>, upserts |-> <<>>, returned |-> <<>>,
     store0 |-> <<>>]

Requests ==
    {Request(IngestText, <<text>>) : text \in Texts} \cup
    UNION {{Request(IngestBatch, texts) : texts \in [1..n -> Texts]} : n \in 0..MaxTexts}

\* The answer of the facade.
Response(status_code, body) == [status_code |-> status_code, body |-> body]

\* BatchIngestResponse(results, total_results) (api.py 84-86, 216)
BatchIngestResponse(results, total_results) ==
    [results |-> results, total_results |-> total_results]

\* Field(..., min_length=1) on TokenIngestRequest.text and on
\* BatchIngestRequest.texts (api.py 58, 62): request validation
Valid(c) ==
    IF c.endpoint = IngestText THEN c.payload[1] # "" ELSE Len(c.payload) >= 1

\* A filter that trims the texts it keeps.
StrippedTexts(texts) ==
    LET kept == SelectSeq(texts, LAMBDA text : Strip(text) # "")
    IN [i \in DOMAIN kept |-> Strip(kept[i])]

\* [text for text in payload.texts if text.strip()] (api.py 208); the single
\* endpoint tests payload.text.strip() (196)
NonBlank(texts) == SelectSeq(texts, LAMBDA text : Strip(text) # "")

\* The handler answers: frame f with the response as its value.
Respond(p, f, status_code, body) ==
    /\ frame' = [frame EXCEPT ![p] = [f EXCEPT !.retval = Some(Response(status_code, body))]]
    /\ Goto(p, "responded")

\* ingest_text / ingest_texts_batch up to the call of the pipeline
\* (api.py 195-201, 206-214)
Ingest(p) ==
    /\ pc[p] = "idle"
    /\ calls < MaxRequests
    /\ \E c \in Requests :
         LET f == [IdleFrame EXCEPT !.call =
                      [c EXCEPT !.store0 = [words |-> words, contexts |-> contexts]]]
             texts == NonBlank(c.payload)
         IN IF ~Valid(c) THEN Respond(p, f, 422, "validation error")
            ELSE IF texts = <<>> THEN
                   Respond(p, f, 400, IF c.endpoint = IngestText
                                        THEN "Text must not be empty"
                                        ELSE "At least one non-empty text is required")
            ELSE /\ frame' = [frame EXCEPT ![p] =
                                 [f EXCEPT !.call.invoked = TRUE, !.call.texts = texts,
                                           !.call.t = 1]]
                 /\ Goto(p, "process_text")
    /\ calls' = calls + 1
    /\ UNCHANGED <<storeVars, idVars, clock, dbOffset, txnVars, histVars>>

\* for token in self._processor.iter_processed_tokens(text): the token source
\* yields its next token and process_text calls upsert_word_with_context with
\* its lemma and sentence (pipeline.py 40-43); entering _cursor may fail.
NextToken(p) ==
    /\ pc[p] = "process_text"
    /\ Len(frame[p].call.tokens) < MaxTokens
    /\ \E token \in Observations :
         LET c == [frame[p].call EXCEPT
                      !.tokens = Append(@, token),
                      !.items = <<Observation(token.word, token.sentence)>>,
                      !.args = Append(@, <<token.word, token.sentence>>)]
         IN \/ Continue(p, NewFrame(c))
            \/ /\ frame' = [frame EXCEPT ![p] =
                               [Fail(NewFrame(c), "connect") EXCEPT !.connection = "none"]]
               /\ Goto(p, "done")
            \/ /\ frame' = [frame EXCEPT ![p] = Fail(NewFrame(c), "cursor")]
               /\ Goto(p, "done")
    /\ UNCHANGED <<storeVars, idVars, clock, dbOffset, txnVars, calls, histVars>>

\* A process_text that reports every Word as created.
AllCreated(token, upsert_result) ==
    PipelineResult(token.word, token.sentence, TRUE,
                   upsert_result.frequency_updated, upsert_result.context_inserted)

\* PipelineResult(lemma=token.lemma, ...) (pipeline.py 44-52)
ResultOf(token, upsert_result) ==
    PipelineResult(token.word, token.sentence, upsert_result.created,
                   upsert_result.frequency_updated, upsert_result.context_inserted)

\* upsert_word_with_context has returned or raised (pipeline.py 41-52): its
\* outcome is appended to results; what it raises passes through process_text,
\* process_many and the handler, and the facade answers 500.
Collect(p) ==
    /\ pc[p] = "done"
    /\ LET f == frame[p]
           c == f.call
       IN IF f.exc # NoExc
            THEN Respond(p, [f EXCEPT !.call.results = <<>>, !.call.aggregated = <<>>],
                         500, "Internal Server Error")
            ELSE /\ frame' = [frame EXCEPT ![p] =
                       [IdleFrame EXCEPT !.call =
                           [c EXCEPT !.results = Append(@, ResultOf(c.tokens[Len(c.tokens)],
                                                                    f.results[1])),
                                     !.upserts = Append(@, f.results[1])]]]
                 /\ Goto(p, "process_text")
    /\ UNCHANGED <<storeVars, idVars, clock, dbOffset, txnVars, calls, histVars>>

\* aggregated.extend(self.process_text(text)) (pipeline.py 60)
Extended(aggregated, results) == aggregated \o results

\* The token source is exhausted: process_text returns results (53);
\* process_many extends aggregated and goes on with the next text (59-60) or
\* returns, and the handler builds its response (api.py 202, 215-216).
EndOfText(p) ==
    /\ pc[p] = "process_text"
    /\ LET f == frame[p]
           c == f.call
           aggregated == Extended(c.aggregated, c.results)
           done == [c EXCEPT !.aggregated = aggregated,
                             !.yielded = Append(@, c.tokens),
                             !.returned = Append(@, c.results),
                             !.tokens = <<>>, !.results = <<>>]
           serialised == [i \in DOMAIN aggregated |-> TokenResponse(aggregated[i])]
       IN IF c.t < Len(c.texts)
            THEN /\ frame' = [frame EXCEPT ![p] = [f EXCEPT !.call = [done EXCEPT !.t = @ + 1]]]
                 /\ UNCHANGED pc
            ELSE Respond(p, [f EXCEPT !.call = done], 200,
                         IF c.endpoint = IngestText THEN serialised
                         ELSE BatchIngestResponse(serialised, Len(serialised)))
    /\ UNCHANGED <<storeVars, idVars, clock, dbOffset, txnVars, calls, histVars>>

\* The response has been sent.
Responded(p) ==
    /\ pc[p] = "responded"
    /\ frame' = [frame EXCEPT ![p] = IdleFrame]
    /\ Goto(p, "idle")
    /\ UNCHANGED <<storeVars, idVars, clock, dbOffset, txnVars, calls, histVars>>

\* One client of the ingestion endpoints, on a store that can fail.
NextIngest ==
    \/ Ingest("c1")
    \/ NextToken("c1")
    \/ Lookup("c1")
    \/ InsertWord("c1")
    \/ IncrementFrequency("c1")
    \/ InsertContext("c1")
    \/ StatementFails("c1")
    \/ Commit("c1")
    \/ CommitFails("c1")
    \/ Collect("c1")
    \/ EndOfText("c1")
    \/ Responded("c1")

SpecIngest == Init /\ [][NextIngest]_vars

----------------------------------------------------------------------------
(* The endpoints that read and mark Words (api.py 219-273) over the           *)
(* VocabularyPipeline that get_pipeline returns (api.py 45-54)                *)

HealthEndpoint == "GET /api/v1/health"
ListEndpoint   == "GET /api/v1/words"
FetchEndpoint  == "GET /api/v1/words/{lemma}"
PatchEndpoint  == "PATCH /api/v1/words/{lemma}"

\* The attributes of a VocabularyPipeline: what __init__ sets, the methods
\* and the property (pipeline.py 33-34, 36, 55, 63, 68-70).
VocabularyPipeline ==
    {"_repository", "_processor", "process_text", "process_many", "fetch_word",
     "processor"}

\* pipeline.<name>
HasAttr(name) == name \in VocabularyPipeline

\* The calls the handlers make: ping() (271); list_words with limit >= 1
\* (223, 228-233); update_word_status(lemma, payload.status) (260);
\* fetch_word(lemma) (248).
EndpointCalls(endpoint) ==
    CASE endpoint = HealthEndpoint -> PingCalls
      [] endpoint = ListEndpoint -> {c \in ListCalls : c.limit >= 1}
      [] endpoint = PatchEndpoint -> SetStatusCalls
      [] OTHER -> FetchCalls

\* The handler of endpoint reads attribute name of the pipeline and calls the
\* repository through it; an attribute the pipeline does not have raises
\* AttributeError, which no handler catches: the facade answers 500.
Through(p, endpoint, name) ==
    /\ pc[p] = "idle"
    /\ calls < MaxCalls
    /\ \E c \in EndpointCalls(endpoint) :
         LET request == [endpoint |-> endpoint] @@ c
         IN IF HasAttr(name)
              THEN Continue(p, NewFrame(request))
              ELSE Respond(p, Raise([IdleFrame EXCEPT !.call = request],
                                    AttributeError, name),
                           500, "Internal Server Error")
    /\ calls' = calls + 1
    /\ UNCHANGED <<storeVars, idVars, clock, dbOffset, txnVars, histVars>>

\* health_check: pipeline.repository.ping() (271)
HealthCheck(p) == Through(p, HealthEndpoint, "repository")

\* list_words: pipeline.repository.list_words(...) (227-233)
ListWordsEndpoint(p) == Through(p, ListEndpoint, "repository")

\* update_word_status: pipeline.repository.update_word_status(...) (260)
UpdateStatusEndpoint(p) == Through(p, PatchEndpoint, "repository")

\* fetch_word: pipeline.fetch_word(lemma) (248)
FetchWordEndpoint(p) == Through(p, FetchEndpoint, "fetch_word")

\* _serialize_word_detail (177-191): WordContext keeps id and sentence
WordDetail(data) ==
    [data EXCEPT !.contexts = [i \in DOMAIN data.contexts |->
                                  [id |-> data.contexts[i].id,
                                   sentence |-> data.contexts[i].sentence]]]

\* WordSummary(id, word, frequency, status, last_seen) (234-243)
WordSummary(word) ==
    [id |-> word.id, word |-> word.word, frequency |-> word.frequency,
     status |-> word.status, last_seen |-> word.last_seen]

\* The call of the repository has returned or raised: the rest of the handler
\* (234-243, 249-251, 261-266, 272-273).  What the call raised is not caught.
\* After a status update the handler answers with the detail of the Word.
EndpointAnswer(p) ==
    /\ pc[p] = "done"
    /\ LET f == frame[p]
           e == f.call.endpoint
       IN IF f.exc # NoExc THEN Respond(p, f, 500, "Internal Server Error")
          ELSE CASE e = HealthEndpoint ->
                      IF f.retval = Some(TRUE) THEN Respond(p, f, 200, [status |-> "ok"])
                      ELSE Respond(p, f, 503, "database down")
                 [] e = ListEndpoint ->
                      Respond(p, f, 200, [i \in DOMAIN f.retval |-> WordSummary(f.retval[i])])
                 [] e = PatchEndpoint ->
                      IF f.retval = None THEN Respond(p, f, 404, "Word not found")
                      ELSE Respond(p, f, 200, f.retval[1])
                 [] OTHER ->
                      IF f.retval = None THEN Respond(p, f, 404, "Word not found")
                      ELSE Respond(p, f, 200, WordDetail(f.retval[1]))
    /\ UNCHANGED <<storeVars, idVars, clock, dbOffset, txnVars, calls, histVars>>

\* Two clients of the endpoints, on a store that can fail.
NextEndpoints ==
    \E p \in Callers :
       \/ HealthCheck(p)
       \/ ListWordsEndpoint(p)
       \/ UpdateStatusEndpoint(p)
       \/ FetchWordEndpoint(p)
       \/ FetchSelectWord(p)
       \/ FetchSelectContexts(p)
       \/ Commit(p)
       \/ CommitFails(p)
       \/ EndpointAnswer(p)
       \/ Responded(p)

SpecEndpoints == Init /\ [][NextEndpoints]_vars

----------------------------------------------------------------------------
(* Properties *)

WordsOf(l) == {r \in words : r.word = l}

Finished(p) == pc[p] = "done"
Succeeded(p) == Finished(p) /\ frame[p].exc = NoExc
Upserting(p) == frame[p].call.kind \in {UpsertOne, UpsertMany}

\* C1: for every lemma, the frequency stored equals the number of observations
\* of it that were committed (none stored when there was none), whether they
\* came one by one or in batches; and a Word reported as created has frequency 1.
C1_FrequencyCountsObservations ==
    /\ \A l \in Lemmas :
          IF observed[l] = 0 THEN WordsOf(l) = {}
          ELSE WordsOf(l) # {} /\ \A r \in WordsOf(l) : r.frequency = observed[l]
    /\ \A p \in Callers : \A i \in DOMAIN frame[p].results :
          frame[p].results[i].created => frame[p].results[i].word.frequency = 1

\* A batch that observed one lemma twice has just been committed on top of
\* earlier observations of that lemma.
C1_Witness ==
    \E p \in Callers :
       /\ Succeeded(p)
       /\ frame[p].call.kind = UpsertMany
       /\ Len(frame[p].call.items) = 2
       /\ frame[p].call.items[1].word = frame[p].call.items[2].word
       /\ observed[frame[p].call.items[1].word] >= 3
       /\ frame[p].results[2].word.frequency = observed[frame[p].call.items[1].word]

\* The Context rows stored for lemma l and sentence s.
ContextsOf(l, s) ==
    {c \in contexts : c.sentence = s /\ \E r \in WordsOf(l) : c.word_id = r.id}

\* C2: the store never holds two Context rows with the same (word_id, sentence);
\* the committed upserts of a pair (lemma, sentence) that reported
\* context_inserted are as many as its Context rows, so at most one; and no
\* upsert ever fails on a repeated sentence (the store rejects or aborts no
\* statement of _insert_context: what a call raises there is a store failure).
C2_OneContextPerSentence ==
    /\ \A c \in contexts : \A d \in contexts :
          (c.word_id = d.word_id /\ c.sentence = d.sentence) => c = d
    /\ \A l \in Lemmas : \A s \in Sentences :
          /\ reported[l][s] = Cardinality(ContextsOf(l, s))
          /\ reported[l][s] <= 1
    /\ \A p \in Callers : frame[p].at # "insert_context"

\* A committed upsert repeated a stored (lemma, sentence) pair: it reported
\* context_inserted = FALSE and the pair still has one Context row.
C2_Witness ==
    \E p \in Callers : \E i \in DOMAIN frame[p].results :
       /\ Succeeded(p)
       /\ ~frame[p].results[i].context_inserted
       /\ frame[p].results[i].frequency_updated
       /\ reported[frame[p].call.items[i].word][frame[p].call.items[i].sentence] = 1
       /\ observed[frame[p].call.items[i].word] >= 2

\* C3: every outcome has exactly one of created and frequency_updated:
\* created when no Word of the lemma was stored when the observation was
\* looked up, frequency_updated when one was.
C3_CreatedXorUpdated ==
    \A p \in Callers : \A i \in DOMAIN frame[p].results :
       /\ frame[p].results[i].created = ~frame[p].existed[i]
       /\ frame[p].results[i].frequency_updated = frame[p].existed[i]

\* A batch returned a created outcome followed by a frequency_updated one.
C3_Witness ==
    \E p \in Callers :
       /\ Succeeded(p)
       /\ Len(frame[p].results) = 2
       /\ frame[p].results[1].created /\ ~frame[p].results[1].frequency_updated
       /\ frame[p].results[2].frequency_updated /\ ~frame[p].results[2].created

\* The call of p that has finished was a batch / a single upsert.
Batch(p) == frame[p].call.kind = UpsertMany
Single(p) == frame[p].call.kind = UpsertOne

\* The lemmas the call of frame f has observed.
LemmasOf(f) == {f.call.items[i].word : i \in DOMAIN f.call.items}

\* The step is the one in which the call of p ends.
Finishes(p) == pc[p] # "done" /\ pc'[p] = "done"

\* The call of p ended on a store failure in a statement, in commit or in the
\* rollback that followed one.
StoreFailed(f) ==
    f.exc # NoExc /\ f.at \notin {"connect", "cursor", "close"}

\* C4: upsert_many_words_with_context is all-or-nothing.  The store changes
\* only in the step that commits a whole transaction, which then holds every
\* write of the call; the step in which a batch ends on a store failure (in a
\* statement or in commit) leaves words and contexts as they are and drops
\* what the batch had written; and a batch that did not commit raises.
C4_BatchAllOrNothing ==
    [][ /\ (words' # words \/ contexts' # contexts) =>
              \E p \in Callers :
                 /\ pc[p] = "commit" /\ Finishes(p) /\ frame'[p].committed
                 /\ words' = Overlay(words, pendWords[p])
                 /\ contexts' = contexts \cup pendCtx[p]
        /\ \A p \in Callers :
              (Finishes(p) /\ frame'[p].call.kind = UpsertMany) =>
                 /\ StoreFailed(frame'[p]) =>
                       /\ ~frame'[p].committed
                       /\ words' = words /\ contexts' = contexts
                       /\ pendWords'[p] = {} /\ pendCtx'[p] = {}
                 /\ ~frame'[p].committed => frame'[p].exc # NoExc
      ]_vars

\* A batch of two observations on an empty store ended on a failure of
\* commit: the id of the Word it had inserted is used up, the store is empty.
C4_Witness ==
    \E p \in Callers :
       /\ Finished(p) /\ Batch(p)
       /\ Len(frame[p].call.items) = 2
       /\ frame[p].exc = OperationalError /\ frame[p].at = "commit"
       /\ words = {} /\ contexts = {}
       /\ nextWordId > 1 /\ nextCtxId > 2

\* C5: no lost update on an existing lemma.  A call that observes one lemma,
\* whose Word was stored when the call began, and meets no store failure,
\* commits and raises nothing, however its statements interleave with those
\* of the other caller; the Word it returns and the Word stored then carry
\* every committed observation of the lemma.
C5_NoLostUpdate ==
    \A p \in Callers : \A l \in Lemmas :
       (/\ Finished(p) /\ Upserting(p)
        /\ LemmasOf(frame[p]) = {l}
        /\ l \in frame[p].began
        /\ frame[p].faults = 0)
       => /\ frame[p].exc = NoExc
          /\ frame[p].committed
          /\ \A r \in WordsOf(l) :
                /\ r.frequency = observed[l]
                /\ frame[p].results[Len(frame[p].results)].word.frequency = r.frequency

\* An upsert of a stored lemma has committed after incrementing a row that
\* another caller had changed since this one looked it up.
C5_Witness ==
    \E p \in Callers : \E l \in Lemmas :
       /\ Succeeded(p) /\ Upserting(p)
       /\ LemmasOf(frame[p]) = {l}
       /\ l \in frame[p].began
       /\ frame[p].raced
       /\ frame[p].committed
       /\ observed[l] >= 3

\* C6: creation race.  An upsert_word_with_context of a lemma that was not
\* stored when the call began, which meets no store failure, raises nothing
\* and returns an outcome with created or frequency_updated, even when
\* another caller inserts the lemma in between.
C6_CreationRaceFallsBack ==
    \A p \in Callers :
       (/\ Finished(p) /\ Single(p)
        /\ frame[p].call.items[1].word \notin frame[p].began
        /\ frame[p].faults = 0)
       => /\ frame[p].exc = NoExc
          /\ frame[p].results[1].created # frame[p].results[1].frequency_updated

\* C7: no two Word rows of the store have the same lemma.
C7_LemmaUnique ==
    \A r \in words : \A s \in words : r.word = s.word => r = s

\* An INSERT of a lemma that another caller had just committed was rejected:
\* the store holds one Word of that lemma.
C7_Witness ==
    \E p \in Callers :
       /\ Finished(p) /\ Upserting(p)
       /\ frame[p].exc = IntegrityError
       /\ \E l \in LemmasOf(frame[p]) :
             l \notin frame[p].began /\ Cardinality(WordsOf(l)) = 1

StatusUpdate(p) == frame[p].call.kind = SetStatus

\* C8: update_word_status returns None exactly when no Word of the lemma is
\* stored; for a stored lemma it returns the Word with the requested status,
\* also when that is the status the Word already had.
C8_AbsentOnlyWhenUnknown ==
    \A p \in Callers :
       (Succeeded(p) /\ StatusUpdate(p)) =>
          /\ (frame[p].retval = <<>>) <=> ~frame[p].existed[1]
          /\ frame[p].retval # <<>> =>
                /\ frame[p].retval[1].word = frame[p].call.word
                /\ frame[p].retval[1].status = frame[p].call.status

\* The step is one of the call update_word_status of p, from its entry to
\* its return.
StepOfStatusUpdate(p) ==
    /\ pc'[p] # pc[p]
    /\ (IF pc[p] = "idle" THEN frame'[p] ELSE frame[p]).call.kind = SetStatus

\* The Words after status was set on those of the lemma.
StatusSet(rows, word, status) ==
    {IF r.word = word THEN [r EXCEPT !.status = status] ELSE r : r \in rows}

\* C9: no step of update_word_status changes a Context, and each leaves the
\* Words as they are or with the requested status on the Word of its lemma:
\* frequency, first_seen, last_seen and every other Word stay.
C9_StatusUpdateChangesOnlyStatus ==
    [][ \A p \in Callers :
           StepOfStatusUpdate(p) =>
              /\ contexts' = contexts
              /\ \/ words' = words
                 \/ /\ pc[p] = "commit"
                    /\ words' = StatusSet(words, frame[p].call.word,
                                          frame[p].call.status)
      ]_vars

\* update_word_status has committed a new status on a Word that had been
\* observed twice.
C9_Witness ==
    \E p \in Callers :
       /\ Succeeded(p) /\ StatusUpdate(p) /\ frame[p].committed
       /\ frame[p].call.status # LEARNING
       /\ frame[p].retval # <<>>
       /\ \E r \in words :
             /\ r.word = frame[p].call.word
             /\ r.status = frame[p].call.status
             /\ r.frequency = 2
             /\ r.last_seen > r.first_seen

\* C10: ingestion never changes a status.  The step that commits an upsert
\* leaves the status of every stored Word as it was and stores new Words as
\* unmastered, and the Word of an outcome that says created is unmastered.
C10_IngestionKeepsStatus ==
    [][ \A p \in Callers :
           (Finishes(p) /\ Upserting(p)) =>
              /\ \A r \in words : \E n \in words' :
                    n.id = r.id /\ n.word = r.word /\ n.status = r.status
              /\ \A n \in words' :
                    (\A r \in words : r.id # n.id) => n.status = UNMASTERED
              /\ \A i \in DOMAIN frame'[p].results :
                    frame'[p].results[i].created =>
                       frame'[p].results[i].word.status = UNMASTERED
      ]_vars

\* A batch has committed an observation of a Word that is learning and the
\* creation of another Word.
C10_Witness ==
    \E p \in Callers :
       /\ Succeeded(p) /\ Batch(p) /\ frame[p].committed
       /\ Len(frame[p].results) = 2
       /\ frame[p].results[1].frequency_updated
       /\ frame[p].results[1].word.status = LEARNING
       /\ frame[p].results[2].created
       /\ \E r \in words : r.status = LEARNING /\ r.frequency >= 2
       /\ \E r \in words : r.status = UNMASTERED /\ r.frequency = 1

----------------------------------------------------------------------------
(* One observation at a time: what upsert_word_with_context does to a store  *)
(* that nobody else writes, as a function                                    *)

\* The (word_id, sentence) pairs of a set of Context rows.
PairsOf(ctxs) == {<<c.word_id, c.sentence>> : c \in ctxs}

\* The store st = [rows, pairs] after one upsert of obs and the outcome of
\* the call; ret is the Word the call returned, from which the id the store
\* assigned and the times it read are taken.
SingleUpsert(st, obs, ret) ==
    LET old == {r \in st.rows : r.word = obs.word}
        row == IF old = {}
                 THEN Word(ret.id, obs.word, 1, UNMASTERED,
                           ret.first_seen, ret.last_seen)
                 ELSE [(CHOOSE r \in old : TRUE) EXCEPT
                          !.frequency = @ + 1, !.last_seen = ret.last_seen]
        pair == <<row.id, obs.sentence>>
    IN [store   |-> [rows  |-> (st.rows \ old) \cup {row},
                     pairs |-> st.pairs \cup {pair}],
        outcome |-> WordUpsertResult(row, old = {}, pair \notin st.pairs, old # {})]

\* The store and the outcomes after single upserts of items[1..n], in order.
RECURSIVE Sequential(_, _, _, _)
Sequential(st, items, rets, n) ==
    IF n = 0 THEN [store |-> st, outcomes |-> <<>>]
    ELSE LET before == Sequential(st, items, rets, n - 1)
             step == SingleUpsert(before.store, items[n], rets[n].word)
         IN [store |-> step.store,
             outcomes |-> Append(before.outcomes, step.outcome)]

\* The step commits the upsert of p, single or batch, and p returns; nobody
\* else has committed since p's first statement read the store.
CommitsUndisturbed(p) ==
    /\ pc[p] = "commit" /\ Upserting(p)
    /\ Finishes(p) /\ frame'[p].committed /\ frame'[p].exc = NoExc
    /\ snap[p].taken /\ snap[p].rows = words

\* C11: a batch is the sequence of its single upserts.  An upsert that nobody
\* disturbs returns one outcome per observation, in input order, and these
\* outcomes and the store it commits are those of single upserts of the same
\* observations in the same order, each seeing what the ones before it wrote;
\* and an upsert that runs alone without store failure raises nothing.
C11_BatchIsSequenceOfSingles ==
    [][ \A p \in Callers :
           /\ CommitsUndisturbed(p) =>
                 LET f == frame'[p]
                     seq == Sequential([rows |-> words, pairs |-> PairsOf(contexts)],
                                       f.call.items, f.results, Len(f.call.items))
                 IN /\ Len(f.results) = Len(f.call.items)
                    /\ f.results = seq.outcomes
                    /\ words' = seq.store.rows
                    /\ PairsOf(contexts') = seq.store.pairs
           /\ (Finishes(p) /\ Upserting(p) /\ calls = 1 /\ frame'[p].faults = 0)
                 => frame'[p].exc = NoExc
      ]_vars

\* A batch has created a Word and observed it again with the same sentence:
\* the second outcome says frequency_updated, not context_inserted, and
\* carries frequency 2.
C11_Witness ==
    \E p \in Callers :
       /\ Succeeded(p) /\ Batch(p) /\ frame[p].committed
       /\ Len(frame[p].call.items) = 2
       /\ frame[p].call.items[1] = frame[p].call.items[2]
       /\ frame[p].results[1].created /\ frame[p].results[1].context_inserted
       /\ frame[p].results[2].frequency_updated
       /\ ~frame[p].results[2].context_inserted
       /\ frame[p].results[2].word.frequency = 2
       /\ frame[p].results[2].word \in words

----------------------------------------------------------------------------

\* C15: when a call ends, on any exit path, its connection is closed (or was
\* never opened).
C15_ConnectionsClosed ==
    \A p \in Callers : Finished(p) => frame[p].connection # "open"

\* The step is the _insert_context of p, which ends one observation.
StepInsertsContext(p) ==
    /\ pc[p] = "insert_context"
    /\ Len(frame'[p].results) = Len(frame[p].results) + 1

\* C16: context_inserted is TRUE exactly when the statement added a Context
\* row, which it does exactly when no Context with the same (word_id,
\* sentence) was in the table; created and frequency_updated have no part.
C16_ContextInsertedIffAdded ==
    [][ \A p \in Callers :
           StepInsertsContext(p) =>
              LET o == frame'[p].results[Len(frame'[p].results)]
                  added == pendCtx'[p] \ pendCtx[p]
                  same == {c \in contexts \cup pendCtx[p] :
                              /\ c.word_id = frame[p].word_id
                              /\ c.sentence = Item(p).sentence}
              IN /\ o.context_inserted <=> added # {}
                 /\ o.context_inserted <=> same = {}
                 /\ \A c \in added :
                       c.word_id = o.word.id /\ c.sentence = Item(p).sentence
                 /\ Cardinality(added) <= 1
      ]_vars

\* A batch has observed a stored lemma twice, first with a sentence it had,
\* then with a new one: frequency_updated both times, context_inserted only
\* the second time.
C16_Witness ==
    \E p \in Callers :
       /\ Succeeded(p) /\ Batch(p) /\ frame[p].committed
       /\ Len(frame[p].results) = 2
       /\ frame[p].results[1].frequency_updated
       /\ ~frame[p].results[1].context_inserted
       /\ frame[p].results[2].frequency_updated
       /\ frame[p].results[2].context_inserted
       /\ frame[p].results[1].word.id = frame[p].results[2].word.id

\* C17: no step changes the id, the lemma or first_seen of a stored Word, or
\* anything of a stored Context.
C17_IdentityNeverChanges ==
    [][ /\ \A r \in words : \A n \in words' :
              n.id = r.id => (n.word = r.word /\ n.first_seen = r.first_seen)
        /\ \A c \in contexts : \A n \in contexts' :
              n.id = c.id => n = c
      ]_vars

\* A Word has been observed after its creation, at a later time, and has two
\* Contexts.
C17_Witness ==
    \E r \in words :
       /\ r.frequency >= 2
       /\ r.last_seen > r.first_seen
       /\ Cardinality({c \in contexts : c.word_id = r.id}) = 2

\* C18: the store only grows: every Word (by id) and every Context stored
\* before a step is stored after it.
C18_StoreOnlyGrows ==
    [][ /\ \A r \in words : \E n \in words' : n.id = r.id
        /\ contexts \subseteq contexts'
        /\ Cardinality(words') >= Cardinality(words)
      ]_vars

\* update_word_status has committed on a store of two Words, which it kept.
C18_Witness ==
    \E p \in Callers :
       /\ Succeeded(p) /\ StatusUpdate(p) /\ frame[p].committed
       /\ frame[p].retval # <<>>
       /\ Cardinality(words) = 2
       /\ Cardinality(contexts) >= 2

----------------------------------------------------------------------------

\* C19: the last_seen of a stored Word is never earlier than its first_seen,
\* and no step moves the last_seen of a Word back.
C19_LastSeenNeverBeforeFirstSeen ==
    [][ /\ \A r \in words' : r.last_seen >= r.first_seen
        /\ \A r \in words : \A n \in words' :
              n.id = r.id => n.last_seen >= r.last_seen
      ]_vars

----------------------------------------------------------------------------

\* C12: every stored lemma is in lower case, and no two stored Words have
\* lemmas that differ only in letter case.
C12_LemmaCaseFolded ==
    /\ \A r \in words : r.word = Lower(r.word)
    /\ \A r \in words : \A s \in words :
          Lower(r.word) = Lower(s.word) => r = s

\* A lemma the engine accepts: not empty, alphabetic.
ValidLemma(w) == w # "" /\ IsAlpha(w)

\* C13: an upsert of an empty or non-alphabetic lemma opens no connection,
\* executes nothing, and no such lemma is ever stored.
C13_InvalidLemmaRejected ==
    /\ \A p \in Callers :
          (/\ pc[p] # "idle" /\ Single(p)
           /\ ~ValidLemma(frame[p].call.items[1].word))
          => /\ frame[p].connection = "none"
             /\ pc[p] = "done"
             /\ pendWords[p] = {} /\ pendCtx[p] = {}
    /\ \A r \in words : ValidLemma(r.word)

\* C14: an upsert of a valid lemma with an empty or blank sentence reports
\* context_inserted = FALSE and stores no Context for it.
C14_BlankSentenceSkipsContext ==
    /\ \A p \in Callers : \A i \in DOMAIN frame[p].results :
          (/\ ValidLemma(frame[p].call.items[i].word)
           /\ Strip(frame[p].call.items[i].sentence) = "")
          => ~frame[p].results[i].context_inserted
    /\ \A c \in contexts : \A r \in words :
          (c.word_id = r.id /\ ValidLemma(r.word)) => Strip(c.sentence) # ""

----------------------------------------------------------------------------

ListCalled(p) == frame[p].call.kind = ListWords

\* The Words of the store that pass the filters of call c.
Matching(c) ==
    {r \in words : /\ c.status = None \/ r.status = c.status[1]
                   /\ c.min_frequency = None \/ r.frequency >= c.min_frequency[1]}

\* The position (from 0) of Word r in the Words of set s sorted by last_seen
\* descending, then id descending.
Position(r, s) ==
    Cardinality({o \in s : \/ o.last_seen > r.last_seen
                           \/ o.last_seen = r.last_seen /\ o.id > r.id})

\* Page k of call c: what list_words returns at offset k * limit.
Page(c, k) == SelectWords(words, c.status, c.min_frequency, c.limit, k * c.limit)

\* The slots <<k, i>> filled in the pages at offsets 0, limit, 2 * limit, ...
Slots(c) ==
    {x \in (0..Cardinality(words)) \X (1..c.limit) : x[2] \in DOMAIN Page(c, x[1])}

\* C20: list_words returns the Words at positions offset .. offset + limit - 1
\* of the matching Words in the order (last_seen descending, id descending);
\* and the pages at offsets 0, limit, 2 * limit, ... of an unchanged store
\* hold every matching Word exactly once.
C20_ListWordsPage ==
    \A p \in Callers :
       (Succeeded(p) /\ ListCalled(p)) =>
          LET c == frame[p].call
              page == frame[p].retval
              rest == Cardinality(Matching(c)) - c.offset
          IN /\ Len(page) = IF rest < 0 THEN 0 ELSE IF rest < c.limit THEN rest ELSE c.limit
             /\ \A i \in DOMAIN page :
                   /\ page[i] \in Matching(c)
                   /\ Position(page[i], Matching(c)) = c.offset + i - 1
             /\ c.limit > 0 =>
                   /\ {Page(c, x[1])[x[2]] : x \in Slots(c)} = Matching(c)
                   /\ Cardinality(Slots(c)) = Cardinality(Matching(c))

\* list_words with a status filter and an offset has returned a full page of
\* two Words with the same last_seen, out of three stored.
C20_Witness ==
    \E p \in Callers :
       /\ Succeeded(p) /\ ListCalled(p)
       /\ frame[p].call.status # None
       /\ frame[p].call.offset = 1
       /\ Len(frame[p].retval) = 2
       /\ frame[p].retval[1].last_seen = frame[p].retval[2].last_seen
       /\ frame[p].retval[1].id > frame[p].retval[2].id
       /\ Cardinality(words) = 3

\* The call of p is a fetch_word_with_contexts.
Fetching(p) == frame[p].call.kind = FetchWord

\* The distinct sentences lemma l was observed with, in committed upserts.
SentencesOf(l) == {s \in Sentences : reported[l][s] > 0}

\* C21: fetch_word_with_contexts(lemma) returns None exactly when its read view
\* holds no Word with that lemma; otherwise it returns that Word with the
\* Context rows of the read view whose word_id is the Word's id, all of them
\* and no other, by id descending; and when nothing was committed since the
\* view was taken, they are as many as the distinct sentences the lemma was
\* observed with.
C21_FetchReturnsWordAndItsContexts ==
    [][ \A p \in Callers :
          /\ (pc[p] = "select_word" /\ pc'[p] # pc[p]) =>
                LET found == {r \in ReadView(p).rows : r.word = frame[p].call.word}
                IN IF found = {}
                     THEN pc'[p] = "commit" /\ frame'[p].retval = None
                     ELSE pc'[p] = "select_contexts"
          /\ (pc[p] = "select_contexts" /\ pc'[p] # pc[p]) =>
                /\ pc'[p] = "commit"
                /\ Len(frame'[p].retval) = 1
                /\ \E r \in snap[p].rows :
                      LET ret == frame'[p].retval[1]
                          cs == ret.contexts
                      IN /\ r.word = frame[p].call.word
                         /\ ret.word = r.word /\ ret.id = r.id
                         /\ ret.frequency = r.frequency /\ ret.status = r.status
                         /\ ret.first_seen = r.first_seen /\ ret.last_seen = r.last_seen
                         /\ {cs[i] : i \in DOMAIN cs} = {c \in snap[p].ctx : c.word_id = r.id}
                         /\ \A i \in DOMAIN cs : \A j \in DOMAIN cs :
                               i < j => cs[i].id > cs[j].id
                         /\ (snap[p].rows = words /\ snap[p].ctx = contexts) =>
                               Len(cs) = Cardinality(SentencesOf(r.word))
      ]_vars

\* A fetch returned a Word with its two Contexts, newest first, from a store
\* that holds a Context of another Word as well.
C21_Witness ==
    \E p \in Callers :
       /\ Succeeded(p) /\ Fetching(p)
       /\ frame[p].retval # None
       /\ Len(frame[p].retval[1].contexts) = 2
       /\ frame[p].retval[1].contexts[1].id > frame[p].retval[1].contexts[2].id
       /\ \E c \in contexts : c.word_id # frame[p].retval[1].id
       /\ Cardinality(SentencesOf(frame[p].retval[1].word)) = 2

\* C22: ping() never raises; it returns True exactly when no step of its unit
\* of work failed, and False when connecting, creating the cursor, the query,
\* commit, rollback or a close failed; and no step of a ping changes a Word
\* or a Context, whatever other callers have written and not yet committed.
C22_PingNeverRaisesNorWrites ==
    [][ \A p \in Callers :
          /\ (Pinging(p) /\ pc'[p] = "returned" /\ pc[p] # "returned") =>
                /\ frame'[p].exc = NoExc
                /\ frame'[p].retval = Some(frame[p].faults = 0)
                /\ frame[p].faults = 0 <=> frame[p].at = "none"
                /\ frame[p].faults = 0 => frame[p].committed /\ frame[p].connection = "closed"
          /\ (pc'[p] # pc[p] /\ (Pinging(p) \/ frame'[p].call.kind = Ping)) =>
                /\ words' = words /\ contexts' = contexts
                /\ nextWordId' = nextWordId /\ nextCtxId' = nextCtxId
                /\ pendWords' = pendWords /\ pendCtx' = pendCtx
          /\ (Pinging(p) /\ pc[p] # "idle" /\ pc'[p] = "idle") =>
                pc[p] = "returned"
      ]_vars

\* A ping has answered False because its commit failed, while the store held
\* a Word and the other caller had written a Word it had not committed.
C22_Witness ==
    \E p \in Callers :
       /\ pc[p] = "returned" /\ Pinging(p)
       /\ frame[p].retval = Some(FALSE)
       /\ frame[p].at = "commit"
       /\ words # {}
       /\ \E q \in Callers : pendWords[q] # {}

\* The request of p has been answered.
Answered(p) == pc[p] = "responded"
Answer(p) == frame[p].retval[1]

\* A text that is empty or only whitespace.
Blank(text) == text \in {"", "   "}

\* The texts of a payload that are not blank, as they are and in their order.
Kept(payload) == SelectSeq(payload, LAMBDA text : ~Blank(text))

RECURSIVE Flatten(_)
Flatten(seqs) ==
    IF seqs = <<>> THEN <<>> ELSE Head(seqs) \o Flatten(Tail(seqs))

\* A request is being handled by p and its handler has called the pipeline.
Processing(p) == frame[p].call.kind # "none" /\ frame[p].call.invoked

\* results is one PipelineResult per token of tokens, in order, with the
\* token's lemma and sentence and the flags of the outcome at the same place
\* of outcomes.
ResultsMatch(results, tokens, outcomes) ==
    /\ Len(results) = Len(tokens)
    /\ Len(outcomes) = Len(tokens)
    /\ \A i \in DOMAIN results :
          /\ results[i].lemma = tokens[i].word
          /\ results[i].sentence = tokens[i].sentence
          /\ results[i].created = outcomes[i].created
          /\ results[i].frequency_updated = outcomes[i].frequency_updated
          /\ results[i].context_inserted = outcomes[i].context_inserted

\* C24: process_text calls upsert_word_with_context once per token the token
\* source yields, in token order, with the token's lemma and sentence; what it
\* returns is one PipelineResult per token, in order, with the token's lemma
\* and sentence and the flags of that token's upsert outcome; and process_many
\* returns the results of its texts one after the other, in text order.
C24_OneUpsertPerToken ==
    \A p \in Callers : Processing(p) =>
       LET c == frame[p].call
           tokens == Flatten(c.yielded) \o c.tokens
       IN /\ Len(c.args) = Len(tokens)
          /\ \A i \in DOMAIN tokens : c.args[i] = <<tokens[i].word, tokens[i].sentence>>
          /\ Len(c.returned) = Len(c.yielded)
          /\ \A k \in DOMAIN c.returned :
                ResultsMatch(c.returned[k], c.yielded[k],
                             SubSeq(c.upserts, Len(Flatten(SubSeq(c.yielded, 1, k - 1))) + 1,
                                    Len(Flatten(SubSeq(c.yielded, 1, k)))))
          /\ pc[p] = "process_text" =>
                ResultsMatch(c.results, c.tokens,
                             SubSeq(c.upserts, Len(Flatten(c.yielded)) + 1, Len(c.upserts)))
          /\ (Answered(p) /\ Answer(p).status_code = 200) =>
                /\ Len(c.returned) = Len(c.texts)
                /\ c.aggregated = Flatten(c.returned)
                /\ LET body == IF c.endpoint = IngestText THEN Answer(p).body
                               ELSE Answer(p).body.results
                   IN ResultsMatch(body, tokens, c.upserts)

\* A batch of two texts was answered: the first text gave two tokens of one
\* new lemma, created and then updated, the second text gave one token.
C24_Witness ==
    \E p \in Callers :
       /\ Answered(p) /\ Answer(p).status_code = 200
       /\ Len(frame[p].call.texts) = 2
       /\ Len(frame[p].call.returned[1]) = 2
       /\ Len(frame[p].call.returned[2]) = 1
       /\ frame[p].call.returned[1][1].created
       /\ frame[p].call.returned[1][2].frequency_updated
       /\ ~frame[p].call.returned[1][2].created
       /\ Len(Answer(p).body.results) = 3

\* What holds of the step in which a unit of work of p ends, whoever raised
\* last: the connection is closed in no earlier step; commit is called only
\* when the body has ended without an error; when connect or the creation of
\* the cursor fails there is no body, no commit and no rollback; a unit of
\* work whose body ended is committed or ends on what commit, rollback or a
\* close raised; one whose body raised is not committed; what is committed is
\* every write of the transaction, what is not committed leaves the store as
\* it was; and the transaction is over either way.
UnitOfWorkOrder(p) ==
    /\ (frame'[p].connection = "closed" /\ frame[p].connection # "closed") => Finishes(p)
    /\ (frame'[p].committed /\ ~frame[p].committed) =>
          pc[p] = "commit" /\ frame[p].exc = NoExc
    /\ Finishes(p) =>
          LET f == frame'[p]
          IN /\ pc[p] = "idle" =>
                   /\ f.at \in {"connect", "cursor"} /\ ~f.committed
                   /\ f.connection # "closed"
             /\ pc[p] = "commit" =>
                   /\ f.committed => f.at \in {"none", "close"}
                   /\ ~f.committed =>
                         f.exc # NoExc /\ f.at \in {"commit", "rollback", "close"}
             /\ pc[p] \notin {"idle", "commit"} =>
                   /\ ~f.committed /\ f.exc # NoExc
                   /\ f.at \in {"statement", pc[p], "rollback", "close"}
             /\ f.committed =>
                   /\ words' = Overlay(words, pendWords[p])
                   /\ contexts' = contexts \cup pendCtx[p]
             /\ ~f.committed => words' = words /\ contexts' = contexts
             /\ pendWords'[p] = {} /\ pendCtx'[p] = {} /\ ~snap'[p].taken
             /\ f.at \notin {"connect", "cursor", "close"} => f.connection = "closed"

\* The exception the caller gets from a unit of work that was not committed
\* is the one the body or commit raised.
OriginalFailureRaised(p) ==
    (Finishes(p) /\ pc[p] # "idle" /\ ~frame'[p].committed) =>
       frame'[p].at \notin {"rollback", "close"}

\* C25 as stated: connect, body, commit if and only if the body raised no
\* error, rollback if the body or the commit raised, the closes only
\* afterwards; a body that failed is never committed, and the original
\* failure is what the caller gets after the rollback.
C25_OriginalFailureReraised ==
    [][\A p \in Callers : UnitOfWorkOrder(p) /\ OriginalFailureRaised(p)]_vars

\* C25, amended: the same order; a body that failed is never committed and an
\* exception always reaches the caller of a unit of work that was not
\* committed: the original failure when rollback and both closes succeed,
\* otherwise the exception rollback or the close raised in its place.
C25_UnitOfWorkOrder ==
    [][\A p \in Callers :
          /\ UnitOfWorkOrder(p)
          /\ (Finishes(p) /\ ~frame'[p].committed) => frame'[p].exc # NoExc
          /\ (Finishes(p) /\ frame'[p].at \in {"rollback", "close"}) =>
                frame'[p].exc = OperationalError
      ]_vars

\* A batch was rolled back after one of its statements failed: the id of the
\* Word it had inserted is used up, the Word is not stored, the connection is
\* closed and the caller has the failure of the statement.
C25_Witness ==
    \E p \in Callers :
       /\ Finished(p) /\ Batch(p)
       /\ frame[p].exc = OperationalError /\ frame[p].at = "statement"
       /\ ~frame[p].committed
       /\ frame[p].connection = "closed"
       /\ nextWordId > Cardinality(words) + 1
       /\ pendWords[p] = {}

\* The frequency of lemma l in rows, 0 when it has no Word.
FrequencyIn(rows, l) ==
    IF \E r \in rows : r.word = l
      THEN (CHOOSE r \in rows : r.word = l).frequency ELSE 0

\* The store holds what it held when the request of call c came in and the
\* observations of the first n tokens of the request, and nothing else.
HoldsTokens(c, n) ==
    /\ \A l \in Lemmas :
          /\ Cardinality(WordsOf(l)) <= 1
          /\ FrequencyIn(words, l) =
                FrequencyIn(c.store0.words, l)
                  + Cardinality({i \in 1..n : c.args[i][1] = l})
    /\ \A l \in Lemmas : \A s \in Sentences :
          Cardinality(ContextsOf(l, s)) =
             IF \/ Cardinality({x \in c.store0.contexts : x.sentence = s /\
                                   \E r \in c.store0.words : r.word = l /\ r.id = x.word_id}) = 1
                \/ \E i \in 1..n : c.args[i] = <<l, s>>
               THEN 1 ELSE 0
    /\ \A x \in contexts : \E r \in words : r.id = x.word_id

Owned(r) == {c \in contexts : c.word_id = r.id}

\* C27: in every committed store state every Word has frequency >= 1 and owns
\* at most as many Context rows as its frequency, and the word_id of every
\* Context is the id of a stored Word.
C27_ContextsBoundedByFrequency ==
    /\ \A r \in words :
          /\ r.frequency >= 1
          /\ Cardinality(Owned(r)) <= r.frequency
    /\ \A c \in contexts : \E r \in words : r.id = c.word_id

\* An upsert has committed on a store in which one Word has been observed
\* three times with two distinct sentences and another Word once.
C27_Witness ==
    /\ \E p \in Callers : Succeeded(p) /\ Upserting(p) /\ frame[p].committed
    /\ \E r \in words : r.frequency = 3 /\ Cardinality(Owned(r)) = 2
    /\ \E r \in words : r.frequency = 1 /\ Cardinality(Owned(r)) = 1

\* C28: with the VocabularyPipeline of get_pipeline, a request to the health,
\* the list or the status-update endpoint ends in one of its defined answers
\* and not in an unhandled error: 200 or 503 for health, 200 for the list,
\* 200 or 404 for the status update.
C28_RepositoryEndpointsAnswer ==
    \A p \in Callers :
       (Answered(p) /\ frame[p].call.endpoint \in
                          {HealthEndpoint, ListEndpoint, PatchEndpoint}) =>
          /\ frame[p].exc # AttributeError
          /\ Answer(p).status_code \in
                CASE frame[p].call.endpoint = HealthEndpoint -> {200, 503}
                  [] frame[p].call.endpoint = ListEndpoint -> {200}
                  [] OTHER -> {200, 404}

====
